---- MODULE Spec2Model ----
(***************************************************************************)
(* A model of frontend/public/js/relayer.js of CipherPayroll: the cached   *)
(* relayer session (initRelayer), the address normalizer                   *)
(* (addressVariants), and the three request wrappers encrypt64For,         *)
(* userDecrypt and publicDecrypt.                                          *)
(*                                                                         *)
(* Every async function runs as a chain of atomic steps, one per segment   *)
(* of code between two suspension points (await); steps of different       *)
(* calls interleave freely, as the browser's event loop lets them.         *)
(* Strings are sequences of one-character strings.                         *)
(***************************************************************************)
EXTENDS Integers, Sequences, FiniteSets, TLC

VARIABLES
    relayer,    \* _relayer: 0 is null, n > 0 the instance of the n-th createInstance call
    ud_kp,      \* _ud_kp: 0 is null, n > 0 the keypair of the n-th generateKeypair call
    ethereum,   \* window.ethereum is present
    ethers,     \* window.ethers (with getAddress) is present
    nCreate,    \* number of createInstance calls made so far
    nKeygen,    \* number of generateKeypair calls made so far
    call,       \* call[c]: the c-th call of a public operation (position and locals)
    nrm         \* the normalizer under test: its input, then its output

vars == <<relayer, ud_kp, ethereum, ethers, nCreate, nKeygen, call, nrm>>

(***************************************************************************)
(* Bounds of the model.                                                    *)
(***************************************************************************)
MaxCalls == 2       \* calls of public operations in one run
MaxHead  == 1       \* freely chosen leading characters of a generated address body
MaxHandles == 2     \* length of a handle list

(***************************************************************************)
(* Characters and strings.                                                 *)
(***************************************************************************)
HexLen == 40                       \* {40} of both patterns of addressVariants
ZW == "u200b"                      \* the zero-width space U+200B
Digits == {"0", "1", "2", "3", "4", "5", "6", "7", "8", "9"}
LowerHexLetters == {"a", "b", "c", "d", "e", "f"}
UpperHexLetters == {"A", "B", "C", "D", "E", "F"}
Null == <<"null">>                 \* null / undefined (no string: "null" is no character)

\* One character of String.prototype.toLowerCase.
LowerChar(c) ==
    CASE c = "A" -> "a" [] c = "B" -> "b" [] c = "C" -> "c" [] c = "D" -> "d"
      [] c = "E" -> "e" [] c = "F" -> "f" [] c = "G" -> "g" [] c = "X" -> "x"
      [] OTHER -> c

\* One character of String.prototype.toUpperCase.
UpperChar(c) ==
    CASE c = "a" -> "A" [] c = "b" -> "B" [] c = "c" -> "C" [] c = "d" -> "D"
      [] c = "e" -> "E" [] c = "f" -> "F" [] c = "g" -> "G" [] c = "x" -> "X"
      [] OTHER -> c

toLowerCase(s) == [i \in 1..Len(s) |-> LowerChar(s[i])]

\* s.replace(/\u200b/g, "")
stripZW(s) == SelectSeq(s, LAMBDA c : c # ZW)

\* s.trim(): U+200B is not white space for trim
IsSpace(c) == c = " "
RECURSIVE trimStart(_)
trimStart(s) == IF s # <<>> /\ IsSpace(Head(s)) THEN trimStart(Tail(s)) ELSE s
RECURSIVE trimEnd(_)
trimEnd(s) ==
    IF s # <<>> /\ IsSpace(s[Len(s)]) THEN trimEnd(SubSeq(s, 1, Len(s) - 1)) ELSE s
trim(s) == trimEnd(trimStart(s))

\* /^0x[0-9a-fA-F]{40}$/.test(s)
MatchesMixedHex(s) ==
    /\ Len(s) = HexLen + 2
    /\ s[1] = "0"
    /\ s[2] = "x"
    /\ \A i \in 3..Len(s) : s[i] \in Digits \cup LowerHexLetters \cup UpperHexLetters

\* /^0x[0-9a-f]{40}$/.test(s)
MatchesLowerHex(s) ==
    /\ Len(s) = HexLen + 2
    /\ s[1] = "0"
    /\ s[2] = "x"
    /\ \A i \in 3..Len(s) : s[i] \in Digits \cup LowerHexLetters

\* dedup keeping every entry
dedupKeepsAll(out) == out

\* [...new Set(out)]: first occurrences, in order
dedup(out) ==
    LET first == {i \in 1..Len(out) : \A j \in 1..(i - 1) : out[j] # out[i]}
        F[i \in 0..Len(out)] ==
            IF i = 0 THEN <<>>
            ELSE IF i \in first THEN Append(F[i - 1], out[i]) ELSE F[i - 1]
    IN  F[Len(out)]

(***************************************************************************)
(* window.ethers.getAddress, the checksum step addressVariants calls.      *)
(* The library is no part of the repository: its result is taken from a    *)
(* behaviour b the environment picks, "throw" or the casing the checksum   *)
(* hash gives the address (which letters are upper case).                  *)
(***************************************************************************)
ChecksumBehaviours == {"throw", "lower", "upper", "first", "odd"}

MaskUp(b, i) ==
    CASE b = "upper" -> TRUE
      [] b = "first" -> i = 1
      [] b = "odd"   -> i % 2 = 1
      [] OTHER       -> FALSE

\* the address pattern of getAddress, /^(0x)?[0-9a-f]{40}$/i
EthersHex(s) ==
    LET body == IF Len(s) >= 2 /\ s[1] = "0" /\ s[2] \in {"x", "X"}
                THEN SubSeq(s, 3, Len(s)) ELSE s
    IN  /\ Len(body) = HexLen
        /\ \A i \in 1..Len(body) :
              body[i] \in Digits \cup LowerHexLetters \cup UpperHexLetters

IsMixedCase(s) ==
    /\ \E i \in 1..Len(s) : s[i] \in UpperHexLetters
    /\ \E i \in 1..Len(s) : s[i] \in LowerHexLetters

\* The element of a one-element set: in The({e(x) : x \in {v}}) the value v
\* is computed once, however often e uses x.
The(S) == CHOOSE x \in S : TRUE

\* the address with its 0x prefix
with0x(raw) ==
    IF Len(raw) >= 2 /\ raw[1] = "0" /\ raw[2] = "x" THEN raw ELSE <<"0", "x">> \o raw

\* the checksummed casing of the lower-case address low; it throws (Null) for
\* a mixed-case address full that is cased otherwise
checksummed(full, low, b) ==
    LET cs == [i \in 1..Len(low) |->
                 IF i > 2 /\ MaskUp(b, i - 2) THEN UpperChar(low[i]) ELSE low[i]]
    IN  IF IsMixedCase(full) /\ cs # full THEN Null ELSE cs

\* The result of getAddress(raw): a string, or Null when it throws.
getAddress(raw, b) ==
    IF b = "throw" \/ ~EthersHex(raw) THEN Null
    ELSE The({ checksummed(full, low, b) :
                 full \in {with0x(raw)}, low \in {toLowerCase(with0x(raw))} })

(***************************************************************************)
(* addressVariants(a), with the environment it reads: whether window.ethers*)
(* is there (hasEthers) and what getAddress does (b).                      *)
(***************************************************************************)
\* lines 51, 54, 55: the two pushes, then the Set
pushed(cs, lc) ==
    LET o1 == IF cs # Null /\ MatchesMixedHex(cs) THEN <<cs>> ELSE <<>>
        o2 == IF MatchesLowerHex(lc) THEN Append(o1, lc) ELSE o1
    IN  dedup(o2)

\* lines 49-55, for the cleaned string raw of line 47
variantsOf(raw, hasEthers, b) ==
    The({ pushed(cs, lc) :
            cs \in {IF hasEthers THEN getAddress(raw, b) ELSE raw},
            lc \in {toLowerCase(raw)} })

addressVariants(a, hasEthers, b) ==
    The({ variantsOf(raw, hasEthers, b) :
            raw \in {trim(stripZW(IF a = Null THEN <<>> ELSE a))} })

(***************************************************************************)
(* Inputs of the normalizer: generated address-like strings.               *)
(***************************************************************************)
Rep(c, n) == [i \in 1..n |-> c]

SeqsUpTo(S, n) == UNION {[1..k -> S] : k \in 0..n}

HeadChars == {"a", "B", "7", "g", ZW, " "}

AddrInputs ==
    {Null} \cup
    { lead \o pfx \o head \o Rep(fill, n - Len(head)) \o trail :
        lead \in {<<>>, <<" ">>, <<ZW>>},
        pfx \in {<<"0", "x">>, <<"0", "X">>, <<>>},
        head \in SeqsUpTo(HeadChars, MaxHead),
        fill \in {"1", "a", "F"},
        n \in {HexLen - 1, HexLen, HexLen + 1},
        trail \in {<<>>, <<" ">>} }

(***************************************************************************)
(* Values the calls handle.                                                *)
(***************************************************************************)
Ops == {"initRelayer", "encrypt64For", "userDecrypt", "publicDecrypt"}

\* Address arguments: a valid lower-case address, another one, one with a
\* character that is no hex digit; the account the wallet reports.
GoodContract  == <<"0", "x", "a">> \o Rep("1", HexLen - 1)
GoodUser      == <<"0", "x", "b">> \o Rep("2", HexLen - 1)
BadAddress    == <<"0", "x", "g">> \o Rep("1", HexLen - 1)
WalletAccount == <<"0", "x", "c">> \o Rep("3", HexLen - 1)
DigitAddress  == <<"0", "x">> \o Rep("4", HexLen)      \* its checksum has no letter to raise

ContractInputs == {GoodContract, BadAddress}
UserInputs     == {Null, GoodUser, BadAddress}

Handles     == {"hA", "hB"}
HandleLists == SeqsUpTo(Handles, MaxHandles)

\* What a decrypt response holds for one handle: a number, a numeric string,
\* or undefined.
Undefined == <<"undefined", 0>>
RawValues == {<<"num", 7>>, <<"str", 9>>, Undefined}

\* BigInt(v): the integer of a number or of a numeric string; throws a
\* TypeError for undefined.
BigIntThrows(v) == v[1] \notin {"num", "str"}
BigInt(v)       == <<"big", v[2]>>

\* A decrypt response: an ordered array, a mapping keyed by handle, or null.
DecryptResponses ==
    {[kind |-> "array", items |-> a, m |-> <<>>] : a \in SeqsUpTo(RawValues, MaxHandles)}
    \cup {[kind |-> "map", items |-> <<>>, m |-> f] :
            f \in UNION {[S -> RawValues \ {Undefined}] : S \in SUBSET Handles}}
    \cup {[kind |-> "null", items |-> <<>>, m |-> <<>>]}

\* A thrown value: an Error with its message (kind), the attempt it comes
\* from (at) and the string it quotes (raw); or a falsy value (throw undefined).
Err(kind, at, raw) == [truthy |-> TRUE, kind |-> kind, at |-> at, raw |-> raw]
Falsy(at)          == [truthy |-> FALSE, kind |-> "undefined", at |-> at, raw |-> <<>>]
NoErr              == [truthy |-> FALSE, kind |-> "none", at |-> 0, raw |-> <<>>]

\* One external call in a call's trace.
Ev(f)               == [f |-> f, i |-> 0, j |-> 0, shape |-> "-"]
EvEnc(f, i, j, shp) == [f |-> f, i |-> i, j |-> j, shape |-> shp]

BackendFns == {"createInstance", "generateKeypair", "createEncryptedInput", "encrypt",
               "createEIP712", "userDecrypt", "publicDecrypt"}

NoArgs == [contractAddress |-> Null, userAddress |-> Null, handles |-> <<>>]

ArgsOf(op) ==
    CASE op = "initRelayer"   -> {NoArgs}
      [] op = "publicDecrypt" -> {[NoArgs EXCEPT !.handles = h] : h \in HandleLists}
      [] op = "userDecrypt"   ->
            {[contractAddress |-> ca, userAddress |-> ua, handles |-> h] :
                ca \in ContractInputs, ua \in UserInputs, h \in HandleLists}
      [] op = "encrypt64For"  ->
            {[contractAddress |-> ca, userAddress |-> ua, handles |-> <<>>] :
                ca \in ContractInputs, ua \in UserInputs}

\* The arguments of calls that overlap: one value for each.
OverlapArgs(op) ==
    CASE op = "initRelayer"   -> {NoArgs}
      [] op = "publicDecrypt" -> {[NoArgs EXCEPT !.handles = <<"hA", "hB">>]}
      [] op = "userDecrypt"   ->
            {[contractAddress |-> GoodContract, userAddress |-> Null,
              handles |-> <<"hA", "hB">>]}
      [] op = "encrypt64For"  ->
            {[contractAddress |-> DigitAddress, userAddress |-> DigitAddress,
              handles |-> <<>>]}

(***************************************************************************)
(* Call records.  A running call holds op, args, trace and the locals of   *)
(* its position; a finished one holds its outcome.  When a later call      *)
(* starts, a finished call keeps only the backend that initRelayer         *)
(* returned to its caller ("past", r = 0 for none).                        *)
(***************************************************************************)
NoCalls == [c \in 1..MaxCalls |-> [pc |-> "idle"]]

Core(k) == [op |-> k.op, args |-> k.args, trace |-> k.trace]

At(k, pc, locals) == [pc |-> pc] @@ locals @@ Core(k)

Traced(k, e) == [k EXCEPT !.trace = Append(@, e)]

\* the call returns val / throws err
DoneOk(k, val)   == [pc |-> "done", ok |-> TRUE, val |-> val, err |-> NoErr] @@ Core(k)
DoneFail(k, err) == [pc |-> "done", ok |-> FALSE, val |-> Null, err |-> err] @@ Core(k)

Summary(k) ==
    IF k.pc = "done"
    THEN [pc |-> "past", r |-> IF k.op = "initRelayer" /\ k.ok THEN k.val ELSE 0]
    ELSE k

Put(c, k) == call' = [call EXCEPT ![c] = k]

Globals == <<relayer, ud_kp, ethereum, ethers, nCreate, nKeygen>>

(***************************************************************************)
(* initRelayer (lines 17-41), run by every operation first.                *)
(***************************************************************************)
\* `return _relayer` of initRelayer: initRelayer itself is done; the other
\* operations resume after their `await initRelayer()` with r.
Returned(k, r) ==
    IF k.op = "initRelayer" THEN DoneOk(k, r) ELSE At(k, "ready", [r |-> r])

\* Lines 18-21, up to the first await.
InitEnter(k) ==
    IF relayer # 0 THEN Returned(k, relayer)
    ELSE IF ~ethereum THEN DoneFail(k, Err("MetaMask not found", 0, <<>>))
    ELSE At(k, "initSDK", <<>>)

\* A call of a public operation begins, its arguments taken from
\* OverlapArgs(op) or ArgsOf(op): it runs initRelayer to its first await.
Begin(c, overlap) ==
    /\ call[c].pc = "idle"
    /\ \A d \in 1..(c - 1) : call[d].pc # "idle"
    /\ \E op \in Ops : \E args \in (IF overlap THEN OverlapArgs(op) ELSE ArgsOf(op)) :
          call' = [d \in 1..MaxCalls |->
                     IF d = c THEN InitEnter([op |-> op, args |-> args, trace |-> <<>>])
                     ELSE Summary(call[d])]
    /\ UNCHANGED <<Globals, nrm>>

\* a call begins while other calls may be in flight
Start(c) == Begin(c, TRUE)

\* a call begins when no other call is in flight
StartAlone(c) ==
    /\ \A d \in 1..MaxCalls : call[d].pc \in {"idle", "done", "past"}
    /\ Begin(c, FALSE)

\* await initSDK() settles; on success createInstance is called (line 23).
InitSDKDone(c) ==
    /\ call[c].pc = "initSDK"
    /\ \/ /\ nCreate' = nCreate + 1
          /\ Put(c, At(Traced(call[c], Ev("createInstance")), "createInstance",
                       [inst |-> nCreate + 1]))
       \/ /\ Put(c, DoneFail(call[c], Err("initSDK failed", 0, <<>>)))
          /\ UNCHANGED nCreate
    /\ UNCHANGED <<relayer, ud_kp, ethereum, ethers, nKeygen, nrm>>

\* await createInstance(...) settles: _relayer is assigned (line 23), then
\* lines 32-40: a keypair is requested if _ud_kp is null, from the instance's
\* generateKeypair or the SDK's (either way one generation).
CreateInstanceDone(c) ==
    /\ call[c].pc = "createInstance"
    /\ \/ /\ relayer' = call[c].inst
          /\ IF ud_kp = 0
             THEN /\ nKeygen' = nKeygen + 1
                  /\ Put(c, At(Traced(call[c], Ev("generateKeypair")), "generateKeypair",
                               [kp |-> nKeygen + 1]))
             ELSE /\ Put(c, Returned(call[c], call[c].inst))
                  /\ UNCHANGED nKeygen
       \/ /\ Put(c, DoneFail(call[c], Err("createInstance failed", 0, <<>>)))
          /\ UNCHANGED <<relayer, nKeygen>>
    /\ UNCHANGED <<ud_kp, ethereum, ethers, nCreate, nrm>>

\* await generateKeypair() settles: _ud_kp is assigned (lines 34/36) and the
\* current _relayer is returned (line 40).
KeypairDone(c) ==
    /\ call[c].pc = "generateKeypair"
    /\ \/ /\ ud_kp' = call[c].kp
          /\ Put(c, Returned(call[c], relayer))
       \/ /\ Put(c, DoneFail(call[c], Err("generateKeypair failed", 0, <<>>)))
          /\ UNCHANGED ud_kp
    /\ UNCHANGED <<relayer, ethereum, ethers, nCreate, nKeygen, nrm>>

(***************************************************************************)
(* The response normalisation of userDecrypt and publicDecrypt             *)
(* (lines 177-178 and 187-188).                                            *)
(***************************************************************************)
\* out[h] ?? out[String(h)]
Lookup(out, h) == IF h \in DOMAIN out.m THEN out.m[h] ELSE Undefined

\* the values BigInt is applied to, in order
normalizeSource(out, handles) ==
    IF out.kind = "array" THEN out.items
    ELSE [i \in 1..Len(handles) |-> Lookup(out, handles[i])]

\* a TypeError: a property read on null, or BigInt(undefined)
normalizeThrows(out, handles) ==
    \/ out.kind = "null" /\ Len(handles) > 0
    \/ \E i \in 1..Len(normalizeSource(out, handles)) :
          BigIntThrows(normalizeSource(out, handles)[i])

normalize(out, handles) ==
    [i \in 1..Len(normalizeSource(out, handles)) |->
        BigInt(normalizeSource(out, handles)[i])]

\* the call ends with the normalised response, or with the TypeError
Normalized(k, out) ==
    [out |-> out] @@
    (IF normalizeThrows(out, k.args.handles)
     THEN DoneFail(k, Err("TypeError", 0, <<>>))
     ELSE DoneOk(k, normalize(out, k.args.handles)))

(***************************************************************************)
(* publicDecrypt (lines 184-189).                                          *)
(***************************************************************************)
\* PublicDecryptCall asking the wallet for accounts first
PublicDecryptCallAsksWallet(c) ==
    /\ call[c].pc = "ready"
    /\ call[c].op = "publicDecrypt"
    /\ Put(c, At(Traced(Traced(call[c], Ev("eth_requestAccounts")), Ev("publicDecrypt")),
                 "publicDecrypt", [r |-> call[c].r, req |-> call[c].args.handles]))
    /\ UNCHANGED <<Globals, nrm>>

\* after `await initRelayer()`: r.publicDecrypt(handles) is called (line 186)
PublicDecryptCall(c) ==
    /\ call[c].pc = "ready"
    /\ call[c].op = "publicDecrypt"
    /\ Put(c, At(Traced(call[c], Ev("publicDecrypt")), "publicDecrypt",
                 [r |-> call[c].r, req |-> call[c].args.handles]))
    /\ UNCHANGED <<Globals, nrm>>

\* the backend answers (or rejects) and lines 187-188 run
PublicDecryptDone(c) ==
    /\ call[c].pc = "publicDecrypt"
    /\ \/ \E out \in DecryptResponses : Put(c, Normalized(call[c], out))
       \/ Put(c, DoneFail(call[c], Err("publicDecrypt failed", 0, <<>>)))
    /\ UNCHANGED <<Globals, nrm>>

(***************************************************************************)
(* ensureUserAddress (lines 58-65), run by encrypt64For and userDecrypt    *)
(* after `await initRelayer()`.                                            *)
(***************************************************************************)
EnsureUser(c) ==
    /\ call[c].pc = "ready"
    /\ call[c].op \in {"encrypt64For", "userDecrypt"}
    /\ LET k   == call[c]
           raw == trim(IF k.args.userAddress = Null THEN <<>> ELSE k.args.userAddress)
       IN  Put(c, IF raw # <<>> THEN At(k, "haveUser", [r |-> k.r, ua |-> raw])
                  ELSE IF ~ethereum THEN DoneFail(k, Err("MetaMask not found", 0, <<>>))
                  ELSE At(Traced(k, Ev("eth_accounts")), "eth_accounts", [r |-> k.r]))
    /\ UNCHANGED <<Globals, nrm>>

\* the wallet answers eth_accounts: an account, none, or a rejection
EthAccountsDone(c) ==
    /\ call[c].pc = "eth_accounts"
    /\ \/ Put(c, At(call[c], "haveUser", [r |-> call[c].r, ua |-> WalletAccount]))
       \/ Put(c, DoneFail(call[c], Err("No connected account", 0, <<>>)))
       \/ Put(c, DoneFail(call[c], Err("eth_accounts failed", 0, <<>>)))
    /\ UNCHANGED <<Globals, nrm>>

(***************************************************************************)
(* encrypt64For (lines 101-135) and doEncrypt (lines 79-87).               *)
(***************************************************************************)
\* The result of enc.encrypt(): which of the fields it has, a handle or a
\* proof being possibly the empty string <<>>.  n tags the attempt that
\* produced it.
EncryptResponses(n) ==
    { [handles |-> <<<<"handle", n>>>>, inputProof |-> <<"proof", n>>],
      [externalValues |-> <<<<"handle", n>>>>, attestation |-> <<"proof", n>>],
      [handles |-> <<>>, externalValues |-> <<<<"handle", n>>>>,
       inputProof |-> <<"proof", n>>],
      [handles |-> <<<<"handle", n>>>>],
      [handles |-> <<<<>>>>, inputProof |-> <<"proof", n>>],
      [handles |-> <<<<"handle", n>>>>, inputProof |-> <<>>],
      [undefined |-> TRUE] }

\* (out?.handles || out?.externalValues)?.[0], a list of zero or one handle
handleOf(out) ==
    LET arr == IF "handles" \in DOMAIN out THEN out.handles
               ELSE IF "externalValues" \in DOMAIN out THEN out.externalValues
               ELSE <<>>
    IN  IF Len(arr) > 0 THEN <<arr[1]>> ELSE <<>>

\* out?.inputProof || out?.attestation, a list of zero or one proof
proofOf(out) ==
    IF "inputProof" \in DOMAIN out THEN <<out.inputProof>>
    ELSE IF "attestation" \in DOMAIN out THEN <<out.attestation>>
    ELSE <<>>

\* missing that takes only undefined for missing
missingUndefinedOnly(x) == x = <<>>

\* !handle, !proof (lines 84-85): undefined or the empty string
missing(x) == x = <<>> \/ x[1] = <<>>

\* the attempts made so far
Attempts(k) == SelectSeq(k.trace, LAMBDA e : e.f = "createEncryptedInput")

\* lines 105-111: the candidate lists, the two checks, the start of the loop
EncPrepare(c) ==
    /\ call[c].pc = "haveUser"
    /\ call[c].op = "encrypt64For"
    /\ \E caList \in {addressVariants(call[c].args.contractAddress, ethers, b) :
                        b \in ChecksumBehaviours} :
       \E uaList \in {addressVariants(call[c].ua, ethers, b) : b \in ChecksumBehaviours} :
          LET k == call[c]
          IN  Put(c, IF Len(caList) = 0
                     THEN DoneFail(k, Err("Contract address looks invalid", 0,
                                          k.args.contractAddress))
                     ELSE IF Len(uaList) = 0
                     THEN DoneFail(k, Err("User address looks invalid", 0, k.ua))
                     ELSE At(k, "ctor", [r |-> k.r, caList |-> caList, uaList |-> uaList,
                                         i |-> 1, j |-> 1, shape |-> "object",
                                         lastErr |-> NoErr]))
    /\ UNCHANGED <<Globals, nrm>>

\* the locals of the loop
Loop(k, i, j, shape, lastErr) ==
    [r |-> k.r, caList |-> k.caList, uaList |-> k.uaList,
     i |-> i, j |-> j, shape |-> shape, lastErr |-> lastErr]

\* what `throw lastErr || new Error(...)` throws (line 134)
finalError(lastErr) ==
    IF lastErr.truthy THEN lastErr
    ELSE Err("Relayer encrypt failed for all address variants", 0, <<>>)

\* EncFailed without the positional fallback: a failed attempt moves on to
\* the next pair
EncFailedNoFallback(k, e) ==
    LET f == Traced(k, EvEnc("failed", k.i, k.j, k.shape))
    IN  IF f.j < Len(f.uaList) THEN At(f, "ctor", Loop(f, f.i, f.j + 1, "object", e))
        ELSE IF f.i < Len(f.caList) THEN At(f, "ctor", Loop(f, f.i + 1, 1, "object", e))
        ELSE [caList |-> f.caList, uaList |-> f.uaList, lastErr |-> e]
             @@ DoneFail(f, finalError(e))

\* EncFailed keeping the first error: lastErr = lastErr || e
EncFailedKeepsFirst(k, e) ==
    LET f == Traced(k, EvEnc("failed", k.i, k.j, k.shape))
        l == IF f.lastErr.truthy THEN f.lastErr ELSE e
    IN  IF f.shape = "object" THEN At(f, "ctor", Loop(f, f.i, f.j, "positional", l))
        ELSE IF f.j < Len(f.uaList) THEN At(f, "ctor", Loop(f, f.i, f.j + 1, "object", l))
        ELSE IF f.i < Len(f.caList) THEN At(f, "ctor", Loop(f, f.i + 1, 1, "object", l))
        ELSE [caList |-> f.caList, uaList |-> f.uaList, lastErr |-> l]
             @@ DoneFail(f, finalError(l))

\* EncFailed trying a failed combination a second time
EncFailedRetries(k, e) ==
    LET f == Traced(k, EvEnc("failed", k.i, k.j, k.shape))
        n == Len(SelectSeq(f.trace, LAMBDA x : x = EvEnc("failed", k.i, k.j, k.shape)))
    IN  IF n < 2 THEN At(f, "ctor", Loop(f, f.i, f.j, f.shape, e))
        ELSE IF f.shape = "object" THEN At(f, "ctor", Loop(f, f.i, f.j, "positional", e))
        ELSE IF f.j < Len(f.uaList) THEN At(f, "ctor", Loop(f, f.i, f.j + 1, "object", e))
        ELSE IF f.i < Len(f.caList) THEN At(f, "ctor", Loop(f, f.i + 1, 1, "object", e))
        ELSE [caList |-> f.caList, uaList |-> f.uaList, lastErr |-> e]
             @@ DoneFail(f, finalError(e))

\* An attempt threw e: the catch clauses (lines 120-131) and the loop
\* headers (lines 113-114) up to the next createEncryptedInput, or line 134.
\* The finished call keeps the candidate lists and lastErr.
EncFailed(k, e) ==
    LET f == Traced(k, EvEnc("failed", k.i, k.j, k.shape))
    IN  IF f.shape = "object" THEN At(f, "ctor", Loop(f, f.i, f.j, "positional", e))
        ELSE IF f.j < Len(f.uaList) THEN At(f, "ctor", Loop(f, f.i, f.j + 1, "object", e))
        ELSE IF f.i < Len(f.caList) THEN At(f, "ctor", Loop(f, f.i + 1, 1, "object", e))
        ELSE [caList |-> f.caList, uaList |-> f.uaList, lastErr |-> e]
             @@ DoneFail(f, finalError(e))

\* r.createEncryptedInput in the current shape (line 117 or 124): it throws,
\* or the builder is filled (attachExtraData, add64) and enc.encrypt() called.
EncCtor(c) ==
    /\ call[c].pc = "ctor"
    /\ LET k == Traced(call[c],
                       EvEnc("createEncryptedInput", call[c].i, call[c].j, call[c].shape))
           n == Len(Attempts(k))
       IN  \/ Put(c, At(Traced(k, EvEnc("encrypt", k.i, k.j, k.shape)), "encrypt",
                        Loop(k, k.i, k.j, k.shape, k.lastErr)))
           \/ Put(c, EncFailed(k, Err("createEncryptedInput failed", n, <<>>)))
           \/ Put(c, EncFailed(k, Falsy(n)))
    /\ UNCHANGED <<Globals, nrm>>

\* await enc.encrypt() settles; lines 82-86 of doEncrypt
EncryptDone(c) ==
    /\ call[c].pc = "encrypt"
    /\ LET k == call[c]
           n == Len(Attempts(k))
       IN  \/ \E out \in EncryptResponses(n) :
                 Put(c, IF missing(handleOf(out))
                        THEN EncFailed(k, Err("Encrypt: missing handle", n, <<>>))
                        ELSE IF missing(proofOf(out))
                        THEN EncFailed(k, Err("Encrypt: missing inputProof/attestation",
                                              n, <<>>))
                        ELSE [caList |-> k.caList, uaList |-> k.uaList]
                             @@ DoneOk(k, [handle |-> handleOf(out)[1],
                                           attestation |-> proofOf(out)[1]]))
           \/ Put(c, EncFailed(k, Err("encrypt failed", n, <<>>)))
    /\ UNCHANGED <<Globals, nrm>>

(***************************************************************************)
(* userDecrypt (lines 140-179) and _getSignerAndUser (lines 89-96).        *)
(***************************************************************************)
Days == 7                                  \* const days = "7" (line 155)
Signature == <<"0", "x", "5", "1", "6">>   \* what the wallet signs with
Clock == {1700000000, 1700000060}          \* Math.floor(Date.now() / 1000), line 154

\* String(signature).replace(/^0x/, "")
strip0x(s) ==
    IF Len(s) >= 2 /\ s[1] = "0" /\ s[2] = "x" THEN SubSeq(s, 3, Len(s)) ELSE s

\* _getSignerAndUser up to its first await (lines 90-92)
GetSigner(k, ca, caList) ==
    IF ~ethereum THEN DoneFail(k, Err("MetaMask not found", 0, <<>>))
    ELSE IF ~ethers THEN DoneFail(k, Err("TypeError", 0, <<>>))
    ELSE At(Traced(k, Ev("eth_requestAccounts")), "signer",
            [r |-> k.r, ua |-> k.ua, ca |-> ca, caList |-> caList])

\* resolveContract taking the last candidate
resolveContractLast(v, raw) == IF Len(v) > 0 THEN v[Len(v)] ELSE raw

\* addressVariants(contractAddress)[0] || contractAddress (line 144)
resolveContract(v, raw) == IF Len(v) > 0 THEN v[1] ELSE raw

\* lines 144-153: the contract address, the keypair re-check, the signer
UdPrepare(c) ==
    /\ call[c].pc = "haveUser"
    /\ call[c].op = "userDecrypt"
    /\ \E v \in {addressVariants(call[c].args.contractAddress, ethers, b) :
                   b \in ChecksumBehaviours} :
          LET k  == call[c]
              ca == resolveContract(v, k.args.contractAddress)
          IN  IF ud_kp = 0
              THEN /\ nKeygen' = nKeygen + 1
                   /\ Put(c, At(Traced(k, Ev("generateKeypair")), "ud_keygen",
                                [r |-> k.r, ua |-> k.ua, ca |-> ca, caList |-> v,
                                 kp |-> nKeygen + 1]))
              ELSE /\ Put(c, GetSigner(k, ca, v))
                   /\ UNCHANGED nKeygen
    /\ UNCHANGED <<relayer, ud_kp, ethereum, ethers, nCreate, nrm>>

\* await generateKeypair() of line 148/149 settles
UdKeygenDone(c) ==
    /\ call[c].pc = "ud_keygen"
    /\ \/ /\ ud_kp' = call[c].kp
          /\ Put(c, GetSigner(call[c], call[c].ca, call[c].caList))
       \/ /\ Put(c, DoneFail(call[c], Err("generateKeypair failed", 0, <<>>)))
          /\ UNCHANGED ud_kp
    /\ UNCHANGED <<relayer, ethereum, ethers, nCreate, nKeygen, nrm>>

\* The awaits of _getSignerAndUser settle (eth_requestAccounts, getSigner,
\* getAddress); lines 154-157: createEIP712 over the current _ud_kp, then
\* signTypedData is called.
SignerDone(c) ==
    /\ call[c].pc = "signer"
    /\ LET k == call[c]
       IN  \/ \E startTs \in Clock :
                 Put(c, At(Traced(Traced(k, Ev("createEIP712")), Ev("signTypedData")), "sign",
                           [r |-> k.r, ua |-> k.ua, ca |-> k.ca, startTs |-> startTs,
                            eip |-> [publicKey |-> ud_kp, contracts |-> <<k.ca>>,
                                     startTs |-> startTs, days |-> Days]]))
           \/ Put(c, DoneFail(Traced(k, Ev("createEIP712")),
                              Err("createEIP712 failed", 0, <<>>)))
           \/ Put(c, DoneFail(k, Err("wallet request rejected", 0, <<>>)))
    /\ UNCHANGED <<Globals, nrm>>

\* await signer.signTypedData settles; lines 163-174: r.userDecrypt is called
\* with the current _ud_kp
SignDone(c) ==
    /\ call[c].pc = "sign"
    /\ LET k == call[c]
       IN  \/ Put(c, At(Traced(k, Ev("userDecrypt")), "userDecrypt",
                        [r |-> k.r, eip |-> k.eip,
                         req |-> [pairs |-> [i \in 1..Len(k.args.handles) |->
                                               [handle |-> k.args.handles[i],
                                                contractAddress |-> k.ca]],
                                  privateKey |-> ud_kp, publicKey |-> ud_kp,
                                  signature |-> strip0x(Signature),
                                  contracts |-> <<k.ca>>, user |-> k.ua,
                                  startTs |-> k.startTs, days |-> Days]]))
           \/ Put(c, DoneFail(k, Err("signature rejected", 0, <<>>)))
    /\ UNCHANGED <<Globals, nrm>>

\* UserDecryptDone sending the request once more after a rejection
UserDecryptDoneRetries(c) ==
    /\ call[c].pc = "userDecrypt"
    /\ \/ \E out \in DecryptResponses : Put(c, Normalized(call[c], out))
       \/ /\ Len(SelectSeq(call[c].trace, LAMBDA e : e.f = "userDecrypt")) < 2
          /\ Put(c, Traced(call[c], Ev("userDecrypt")))
       \/ /\ Len(SelectSeq(call[c].trace, LAMBDA e : e.f = "userDecrypt")) >= 2
          /\ Put(c, DoneFail(call[c], Err("userDecrypt failed", 0, <<>>)))
    /\ UNCHANGED <<Globals, nrm>>

\* the backend answers (or rejects) and lines 177-178 run
UserDecryptDone(c) ==
    /\ call[c].pc = "userDecrypt"
    /\ \/ \E out \in DecryptResponses : Put(c, Normalized(call[c], out))
       \/ Put(c, DoneFail(call[c], Err("userDecrypt failed", 0, <<>>)))
    /\ UNCHANGED <<Globals, nrm>>

(***************************************************************************)
(* The environment: the wallet extension goes away or comes back.          *)
(***************************************************************************)
WalletRemoved ==
    /\ ethereum
    /\ ethereum' = FALSE
    /\ UNCHANGED <<relayer, ud_kp, ethers, nCreate, nKeygen, call, nrm>>

WalletInjected ==
    /\ ~ethereum
    /\ ethereum' = TRUE
    /\ UNCHANGED <<relayer, ud_kp, ethers, nCreate, nKeygen, call, nrm>>

(***************************************************************************)
(* Spec: calls overlap.  SpecSeq: one call at a time, over all arguments.  *)
(***************************************************************************)
Init ==
    /\ relayer = 0
    /\ ud_kp = 0
    /\ ethereum \in BOOLEAN
    /\ ethers = TRUE
    /\ nCreate = 0
    /\ nKeygen = 0
    /\ call = NoCalls
    /\ nrm = [st |-> "off"]

InitSeq ==
    /\ relayer = 0
    /\ ud_kp = 0
    /\ ethereum \in BOOLEAN
    /\ ethers \in BOOLEAN
    /\ nCreate = 0
    /\ nKeygen = 0
    /\ call = NoCalls
    /\ nrm = [st |-> "off"]

Step(c) ==
    \/ InitSDKDone(c)
    \/ CreateInstanceDone(c)
    \/ KeypairDone(c)
    \/ PublicDecryptCall(c)
    \/ PublicDecryptDone(c)
    \/ EnsureUser(c)
    \/ EthAccountsDone(c)
    \/ EncPrepare(c)
    \/ EncCtor(c)
    \/ EncryptDone(c)
    \/ UdPrepare(c)
    \/ UdKeygenDone(c)
    \/ SignerDone(c)
    \/ SignDone(c)
    \/ UserDecryptDone(c)

Next == \E c \in 1..MaxCalls : Start(c) \/ Step(c)

NextSeq ==
    \/ \E c \in 1..MaxCalls : StartAlone(c) \/ Step(c)
    \/ WalletRemoved
    \/ WalletInjected

Spec == Init /\ [][Next]_vars

SpecSeq == InitSeq /\ [][NextSeq]_vars

(***************************************************************************)
(* SpecEnc: calls of encrypt64For, one at a time, where every pending call *)
(* of the backend or the wallet settles and the continuation of the call   *)
(* that awaits it runs.                                                    *)
(***************************************************************************)
StartEncrypt(c) == StartAlone(c) /\ call'[c].op = "encrypt64For"

EncStep(c) ==
    \/ InitSDKDone(c)
    \/ CreateInstanceDone(c)
    \/ KeypairDone(c)
    \/ EnsureUser(c)
    \/ EthAccountsDone(c)
    \/ EncPrepare(c)
    \/ EncCtor(c)
    \/ EncryptDone(c)

NextEnc == \E c \in 1..MaxCalls : StartEncrypt(c) \/ EncStep(c)

SpecEnc == InitSeq /\ [][NextEnc]_vars /\ \A c \in 1..MaxCalls : WF_vars(EncStep(c))

(***************************************************************************)
(* The normalizer alone: Init draws an input, Normalize applies            *)
(* addressVariants to it.                                                  *)
(***************************************************************************)
InitAddr ==
    /\ relayer = 0
    /\ ud_kp = 0
    /\ ethereum = TRUE
    /\ ethers \in BOOLEAN
    /\ nCreate = 0
    /\ nKeygen = 0
    /\ call = NoCalls
    /\ nrm \in {[st |-> "in", a |-> a] : a \in AddrInputs}

Normalize ==
    /\ nrm.st = "in"
    /\ \E b \in ChecksumBehaviours :
          nrm' = [st |-> "out", a |-> nrm.a, b |-> b,
                  out |-> addressVariants(nrm.a, ethers, b)]
    /\ UNCHANGED <<relayer, ud_kp, ethereum, ethers, nCreate, nKeygen, call>>

NextAddr == Normalize

SpecAddr == InitAddr /\ [][NextAddr]_vars

(***************************************************************************)
(* Properties.                                                             *)
(***************************************************************************)
Calls == 1..MaxCalls
Live(k) == k.pc \notin {"idle", "past"}
HasEv(k, f) == \E n \in 1..Len(k.trace) : k.trace[n].f = f
Events(k, f) == SelectSeq(k.trace, LAMBDA e : e.f = f)
Finished(k, op) == k.pc = "done" /\ k.op = op

\* the call's createInstance was answered with an instance
CreatedOk(k) ==
    /\ Live(k)
    /\ HasEv(k, "createInstance")
    /\ k.pc # "createInstance"
    /\ ~(k.pc = "done" /\ ~k.ok /\ k.err.kind = "createInstance failed")

\* the call's generateKeypair was answered with a keypair
GeneratedOk(k) ==
    /\ Live(k)
    /\ HasEv(k, "generateKeypair")
    /\ k.pc \notin {"generateKeypair", "ud_keygen"}
    /\ ~(k.pc = "done" /\ ~k.ok /\ k.err.kind = "generateKeypair failed")

\* C1: among calls of initRelayer that overlap, at most one connects to the
\* backend (createInstance) and at most one generates a keypair.
C1_SingleFlight ==
    LET inits == {c \in Calls : Live(call[c]) /\ call[c].op = "initRelayer"}
    IN  /\ Cardinality({c \in inits : CreatedOk(call[c])}) <= 1
        /\ Cardinality({c \in inits : GeneratedOk(call[c])}) <= 1

\* the backend a call of initRelayer returned to its caller, 0 for none
ReturnedBackend(k) ==
    IF k.pc = "past" THEN k.r
    ELSE IF Finished(k, "initRelayer") /\ k.ok THEN k.val
    ELSE 0

\* C2: all calls of initRelayer that return, return the same backend, and
\* the cached backend stays the one that was returned.
C2_SameBackend ==
    \A c \in Calls : ReturnedBackend(call[c]) # 0 =>
        /\ relayer = ReturnedBackend(call[c])
        /\ \A d \in Calls : ReturnedBackend(call[d]) \in {0, ReturnedBackend(call[c])}

\* C3: over all operations at most one keypair generation succeeds, so the
\* cached keypair, once set, is the first one.
C3_OneKeypair == Cardinality({c \in Calls : GeneratedOk(call[c])}) <= 1

Decrypts == {"userDecrypt", "publicDecrypt"}

\* what the response holds for the i-th handle h
AssociatedValue(out, h, i) == IF out.kind = "array" THEN out.items[i] ELSE out.m[h]

\* C4: a decrypt call that returns, returns as many values as there are
\* handles, the i-th being the backend's value for the i-th handle.
C4_OrderedResult ==
    \A c \in Calls :
        (call[c].pc = "done" /\ call[c].op \in Decrypts /\ call[c].ok) =>
            /\ Len(call[c].val) = Len(call[c].args.handles)
            /\ \A i \in 1..Len(call[c].args.handles) :
                  call[c].val[i] =
                      BigInt(AssociatedValue(call[c].out, call[c].args.handles[i], i))

\* C5: a decrypt call that returns, returns a value for every handle.
C5_NoPartialResult ==
    \A c \in Calls :
        (call[c].pc = "done" /\ call[c].op \in Decrypts /\ call[c].ok) =>
            Len(call[c].val) >= Len(call[c].args.handles)

\* no checksum behaviour gives the address a candidate
NoCandidate(a) == \A b \in ChecksumBehaviours : addressVariants(a, ethers, b) = <<>>

InvalidAddressKinds == {"Contract address looks invalid", "User address looks invalid"}

\* C6: a call of encrypt64For with a contract address (or a given user
\* address) that has no candidate calls no backend function, fails, and an
\* invalid-address error it fails with quotes the raw string.
C6_FailsBeforeBackend ==
    \A c \in Calls :
        LET k == call[c]
        IN  ( /\ Live(k)
              /\ k.op = "encrypt64For"
              /\ \/ NoCandidate(k.args.contractAddress)
                 \/ k.args.userAddress # Null /\ NoCandidate(k.args.userAddress) ) =>
                /\ \A n \in 1..Len(k.trace) : k.trace[n].f \notin BackendFns
                /\ k.pc = "done" => ~k.ok
                /\ (k.pc = "done" /\ k.err.kind \in InvalidAddressKinds) =>
                      k.err.raw \in {k.args.contractAddress, trim(k.args.userAddress)}

\* the m-th createEncryptedInput call of the loop over nu user candidates
ExpectedAttempt(m, nu) ==
    EvEnc("createEncryptedInput",
          (((m - 1) \div 2) \div nu) + 1, (((m - 1) \div 2) % nu) + 1,
          IF m % 2 = 1 THEN "object" ELSE "positional")

\* checksummed candidate first, lower-case candidate last
CandidateOrder(list) ==
    Len(list) = 2 => list[1] # list[2] /\ list[2] = toLowerCase(list[1])

\* C7: a call of encrypt64For that returns has tried the combinations in
\* order (contract outer, user inner, object shape before positional), all
\* but the last have failed, the result is the last one's, and nothing is
\* called after it.
C7_FirstSuccess ==
    \A c \in Calls :
        (Finished(call[c], "encrypt64For") /\ call[c].ok) =>
            LET k   == call[c]
                att == Events(k, "createEncryptedInput")
                n   == Len(att)
            IN  /\ n >= 1
                /\ \A m \in 1..n : att[m] = ExpectedAttempt(m, Len(k.uaList))
                /\ att[n].i <= Len(k.caList)
                /\ Events(k, "failed") =
                      [m \in 1..(n - 1) |-> [att[m] EXCEPT !.f = "failed"]]
                /\ k.val = [handle |-> <<"handle", n>>, attestation |-> <<"proof", n>>]
                /\ k.trace[Len(k.trace)] = [att[n] EXCEPT !.f = "encrypt"]
                /\ CandidateOrder(k.caList)
                /\ CandidateOrder(k.uaList)

C7_Witness ==
    \E c \in Calls :
        /\ Finished(call[c], "encrypt64For")
        /\ call[c].ok
        /\ Len(call[c].caList) = 2
        /\ Len(Events(call[c], "createEncryptedInput")) = 4

\* every combination was tried and the call failed
Exhausted(k) ==
    /\ Finished(k, "encrypt64For")
    /\ ~k.ok
    /\ Len(Events(k, "createEncryptedInput")) > 0

C9_WalletShortCircuit ==
    [][\A c \in Calls :
          (call[c].pc = "idle" /\ call'[c].pc # "idle" /\ ~ethereum) =>
              /\ call'[c].pc = "done"
              /\ ~call'[c].ok
              /\ call'[c].err.kind = "MetaMask not found"]_vars

\* 0x and forty hex digits
IsHexAddress(s) ==
    /\ Len(s) = HexLen + 2
    /\ SubSeq(s, 1, 2) = <<"0", "x">>
    /\ \A i \in 3..Len(s) : s[i] \in Digits \cup LowerHexLetters \cup UpperHexLetters

\* C10: addressVariants returns at most two entries, all different, each 0x
\* and forty hex digits, the lower-case form last; a valid address gives its
\* lower-case form; a checksum step that throws only drops the first entry.
C10_Candidates ==
    nrm.st = "out" =>
        LET out == nrm.out
            lc  == toLowerCase(trim(stripZW(IF nrm.a = Null THEN <<>> ELSE nrm.a)))
        IN  /\ Len(out) <= 2
            /\ \A i \in 1..Len(out) : IsHexAddress(out[i])
            /\ \A i \in 1..Len(out) : \A j \in 1..Len(out) : i # j => out[i] # out[j]
            /\ Len(out) = 2 => out[2] = toLowerCase(out[1])
            /\ \A i \in 1..Len(out) : out[i] = toLowerCase(out[i]) => i = Len(out)
            /\ (nrm.a # Null /\ IsHexAddress(nrm.a)) =>
                  Len(out) >= 1 /\ out[Len(out)] = toLowerCase(nrm.a)
            /\ (ethers /\ nrm.b = "throw") =>
                  out = IF IsHexAddress(lc) /\ lc = toLowerCase(lc) THEN <<lc>> ELSE <<>>

C10_Witness ==
    /\ nrm.st = "out"
    /\ ethers
    /\ Len(nrm.out) = 2
    /\ nrm.a # nrm.out[1]
    /\ nrm.a # nrm.out[2]


\* what session initialization calls, and the one call of publicDecrypt
PublicDecryptCalls == {"createInstance", "generateKeypair", "publicDecrypt"}

\* C11: a call of publicDecrypt makes no wallet call; besides the calls of
\* session initialization (createInstance, then generateKeypair) its only
\* call is one r.publicDecrypt, the last call it makes, and that carries the
\* handle list it was given.
C11_PublicDecryptFrame ==
    \A c \in Calls :
        (Live(call[c]) /\ call[c].op = "publicDecrypt") =>
            LET k == call[c]
                t == k.trace
                n == Len(Events(k, "publicDecrypt"))
            IN  /\ \A m \in 1..Len(t) : t[m].f \in PublicDecryptCalls
                /\ n <= 1
                /\ \A m \in 1..Len(t) : t[m].f = "publicDecrypt" => m = Len(t)
                /\ \A m \in 1..Len(t) :
                      t[m].f = "generateKeypair" => m = 2 /\ t[1].f = "createInstance"
                /\ k.pc = "publicDecrypt" => n = 1 /\ k.req = k.args.handles
                /\ (k.pc = "done" /\ k.ok) => n = 1

C11_Witness ==
    \E c \in Calls :
        /\ call[c].pc = "publicDecrypt"
        /\ call[c].req = <<"hA", "hB">>
        /\ ud_kp = 0

\* the events of a call of encrypt64For that are createEncryptedInput in the
\* positional shape
IsPositionalCtor(e) == e.f = "createEncryptedInput" /\ e.shape = "positional"

\* C12 as stated: the positional call is made for a pair only if the
\* structured createEncryptedInput of that pair threw, never after the
\* structured builder was constructed and its encrypt step was reached.
C12_PositionalOnlyAfterCtorThrow ==
    \A c \in Calls :
        (Live(call[c]) /\ call[c].op = "encrypt64For") =>
            LET t == call[c].trace
            IN  \A m \in 1..Len(t) :
                    IsPositionalCtor(t[m]) =>
                        ~\E q \in 1..m : t[q] = EvEnc("encrypt", t[m].i, t[m].j, "object")

\* C12: the positional call is made for a pair exactly when the structured
\* attempt of that pair has failed, at whichever step (construction threw,
\* encrypt rejected, handle or proof missing): it directly follows that
\* failure, and every failed structured attempt is followed by it.
C12_PositionalAfterAnyFailure ==
    \A c \in Calls :
        (Live(call[c]) /\ call[c].op = "encrypt64For") =>
            LET k == call[c]
                t == k.trace
            IN  /\ \A m \in 1..Len(t) :
                      IsPositionalCtor(t[m]) =>
                          m > 1 /\ t[m - 1] = EvEnc("failed", t[m].i, t[m].j, "object")
                /\ \A m \in 1..Len(t) :
                      (t[m].f = "failed" /\ t[m].shape = "object") =>
                          IF m < Len(t)
                          THEN t[m + 1] = EvEnc("createEncryptedInput", t[m].i, t[m].j,
                                                "positional")
                          ELSE k.pc = "ctor" /\ k.shape = "positional"
                               /\ k.i = t[m].i /\ k.j = t[m].j

C12_Witness ==
    \E c \in Calls :
        /\ Live(call[c])
        /\ call[c].op = "encrypt64For"
        /\ Len(call[c].trace) >= 4
        /\ \E m \in 1..(Len(call[c].trace) - 3) :
              /\ call[c].trace[m] = EvEnc("createEncryptedInput", 1, 1, "object")
              /\ call[c].trace[m + 1] = EvEnc("encrypt", 1, 1, "object")
              /\ call[c].trace[m + 2] = EvEnc("failed", 1, 1, "object")
              /\ call[c].trace[m + 3] = EvEnc("createEncryptedInput", 1, 1, "positional")

MissingKinds == {"Encrypt: missing handle", "Encrypt: missing inputProof/attestation"}

\* C13: what encrypt64For returns has a handle and an attestation, neither
\* empty; after an attempt whose result lacks one of them the call is at
\* the next combination, and it fails with that error only when the attempt
\* was the last combination.
C13_CompleteResult ==
    \A c \in Calls :
        (Live(call[c]) /\ call[c].op = "encrypt64For") =>
            LET k == call[c]
            IN  /\ (k.pc = "done" /\ k.ok) =>
                      k.val.handle # <<>> /\ k.val.attestation # <<>>
                /\ (k.pc = "ctor" /\ k.lastErr.kind \in MissingKinds) =>
                      EvEnc("createEncryptedInput", k.i, k.j, k.shape) =
                          ExpectedAttempt(k.lastErr.at + 1, Len(k.uaList))
                /\ (k.pc = "done" /\ ~k.ok /\ k.err.kind \in MissingKinds) =>
                      k.err.at = 2 * Len(k.caList) * Len(k.uaList)

C13_Witness ==
    \E c \in Calls :
        /\ call[c].pc = "ctor"
        /\ call[c].lastErr.kind \in MissingKinds
        /\ call[c].shape = "object"
        /\ call[c].i = 2

WalletErrors == {"MetaMask not found", "wallet request rejected", "signature rejected"}

\* the calls of a userDecrypt call: r.userDecrypt is requested at most once,
\* as its last call, directly after signTypedData of the same call; a call
\* that failed at the wallet has requested nothing, one that failed at the
\* backend has requested once.
SignedBeforeRequest ==
    \A c \in Calls :
        (Live(call[c]) /\ call[c].op = "userDecrypt") =>
            LET k == call[c]
                t == k.trace
                n == Len(Events(k, "userDecrypt"))
            IN  /\ n <= 1
                /\ \A m \in 1..Len(t) :
                      t[m].f = "userDecrypt" =>
                          /\ m = Len(t)
                          /\ m >= 4
                          /\ t[m - 1].f = "signTypedData"
                          /\ t[m - 2].f = "createEIP712"
                          /\ t[m - 3].f = "eth_requestAccounts"
                /\ (k.pc = "done" /\ ~k.ok /\ k.err.kind \in WalletErrors) => n = 0
                /\ (k.pc = "done" /\ ~k.ok /\ k.err.kind = "userDecrypt failed") => n = 1
                /\ (k.pc = "done" /\ k.ok) => n = 1

\* a userDecrypt call that comes to the signer while window.ethereum is
\* absent fails with the wallet-not-found error (or with the rejection of
\* the keypair generation before it)
AbsentWalletFails ==
    \A c \in Calls :
        ( /\ call[c].pc \in {"haveUser", "ud_keygen"}
          /\ call[c].op = "userDecrypt"
          /\ ~ethereum
          /\ call'[c] # call[c] ) =>
            \/ call'[c].pc = "ud_keygen"
            \/ /\ call'[c].pc = "done"
               /\ ~call'[c].ok
               /\ call'[c].err.kind \in {"MetaMask not found", "generateKeypair failed"}

\* C14: userDecrypt sends r.userDecrypt only after the wallet has signed in
\* the same call and sends it once; without a wallet or without a signature
\* the call fails with that error and sends nothing; a rejection by the
\* backend is the call's error, with no second request.
C14_SignThenRequestOnce == []SignedBeforeRequest /\ [][AbsentWalletFails]_vars

C14_Witness ==
    \E c \in Calls :
        /\ Finished(call[c], "userDecrypt")
        /\ ~call[c].ok
        /\ call[c].err.kind = "signature rejected"
        /\ HasEv(call[c], "signTypedData")

\* what userDecrypt may take for the contract address raw: its first
\* candidate, or raw itself when it has none
ResolvedContracts(raw) ==
    IF NoCandidate(raw) THEN {raw}
    ELSE {addressVariants(raw, ethers, b)[1] : b \in ChecksumBehaviours}

\* C15: userDecrypt never fails with an invalid-address error; the contract
\* address it signs and sends is the first candidate of its argument, or the
\* argument itself when there is no candidate, the same in the typed data,
\* in every pair and in the request's contract list; encrypt64For with a
\* contract address without candidate makes no attempt and fails.
C15_LenientContract ==
    \A c \in Calls :
        LET k == call[c]
        IN  /\ (Live(k) /\ k.op = "userDecrypt") =>
                  /\ k.pc = "done" => k.err.kind \notin InvalidAddressKinds
                  /\ k.pc \in {"ud_keygen", "signer"} =>
                        /\ k.caList \in {addressVariants(k.args.contractAddress, ethers, b) :
                                            b \in ChecksumBehaviours}
                        /\ CandidateOrder(k.caList)
                        /\ k.ca = IF k.caList = <<>> THEN k.args.contractAddress
                                  ELSE k.caList[1]
                  /\ k.pc = "sign" => k.ca \in ResolvedContracts(k.args.contractAddress)
                  /\ k.pc = "sign" => k.eip.contracts = <<k.ca>>
                  /\ k.pc = "userDecrypt" =>
                        /\ k.eip.contracts[1] \in ResolvedContracts(k.args.contractAddress)
                        /\ k.req.contracts = k.eip.contracts
                        /\ Len(k.req.pairs) = Len(k.args.handles)
                        /\ \A i \in 1..Len(k.req.pairs) :
                              k.req.pairs[i].contractAddress = k.eip.contracts[1]
            /\ (Live(k) /\ k.op = "encrypt64For" /\ NoCandidate(k.args.contractAddress)) =>
                  /\ ~HasEv(k, "createEncryptedInput")
                  /\ k.pc = "done" => ~k.ok

C15_Witness ==
    \E c \in Calls :
        /\ call[c].pc = "userDecrypt"
        /\ call[c].req.contracts = <<BadAddress>>
        /\ Len(call[c].req.pairs) = 2

\* no combination is tried twice, and there are at most two attempts for
\* each pair of candidates, eight for two lists of two
AtMostOnce ==
    \A c \in Calls :
        (Live(call[c]) /\ call[c].op = "encrypt64For") =>
            LET k   == call[c]
                att == Events(k, "createEncryptedInput")
            IN  /\ \A m \in 1..Len(att) : \A q \in 1..Len(att) : att[m] = att[q] => m = q
                /\ Len(att) <= 8
                /\ k.pc \in {"ctor", "encrypt"} =>
                      /\ Len(k.caList) <= 2
                      /\ Len(k.uaList) <= 2
                      /\ Len(att) <= 2 * Len(k.caList) * Len(k.uaList)

\* a call of encrypt64For that has begun comes to an end
Terminates ==
    \A c \in Calls :
        (call[c].pc \notin {"idle", "done", "past"} /\ call[c].op = "encrypt64For")
            ~> (call[c].pc \in {"done", "past"})

\* C16: encrypt64For tries no combination twice, makes at most
\* 2 x |caList| x |uaList| <= 8 createEncryptedInput calls, and, every pending
\* call settling, ends with a result or an error.
C16_BoundedAttempts == []AtMostOnce /\ Terminates

C16_Witness ==
    \E c \in Calls :
        /\ Finished(call[c], "encrypt64For")
        /\ Len(Events(call[c], "createEncryptedInput")) = 8
        /\ ~call[c].ok

\* C17: the user-decrypt request of a call carries the public key that the
\* typed data signed in that call binds, a private key of the same keypair,
\* and the contract address, start time and duration of the typed data.
C17_SignedMatchesRequest ==
    \A c \in Calls :
        call[c].pc = "userDecrypt" =>
            LET eip == call[c].eip
                req == call[c].req
            IN  /\ req.publicKey = eip.publicKey
                /\ req.privateKey = req.publicKey
                /\ req.contracts = eip.contracts
                /\ req.startTs = eip.startTs
                /\ req.days = eip.days
                /\ eip.days = Days

\* C18: when a call of initRelayer has returned a backend, the cached
\* keypair is set.
C18_KeypairWithSession ==
    \A c \in Calls : ReturnedBackend(call[c]) # 0 => ud_kp # 0

\* C19: after a call of initRelayer has failed the cached backend is as it
\* was when the call began.  A call that fails found no cached backend at
\* line 18 (it would have returned it), and with one call at a time nothing
\* else assigns it: the cache is as before when _relayer is still null.
C19_FailureLeavesCache ==
    \A c \in Calls :
        (Finished(call[c], "initRelayer") /\ ~call[c].ok) => relayer = 0

====
